---- MODULE Spec2Model ----
\* Announcements endpoints (src/backend/routers/announcements.py): the
\* announcements collection, the five request handlers and the storage
\* operations they issue.
EXTENDS Integers, Sequences, FiniteSets, TLC

\* ---------------------------------------------------------------- bounds
\* Number of announcements ever inserted (ObjectIds 1..MaxDocs).
MaxDocs == 2
\* Instants that date strings and the wall clock range over (1..MaxTime).
MaxTime == 2

\* ---------------------------------------------------------------- values
\* teachers_collection: the usernames that have a record (read-only here).
Teachers == {"t1"}
Usernames == Teachers \cup {"ghost"}

Messages == {"m1", "m2"}
\* Python None for the Optional[str] message parameter.
NoMessage == "<None>"

\* Python None for an Optional[str] date parameter, and the value dict.get()
\* returns for a missing field.
None == [form |-> "None", t |-> 0]
\* The empty string "".
Empty == [form |-> "empty", t |-> 0]
\* A string that is no ISO-8601 date ("bad").
Garbage == [form |-> "bad", t |-> 0]
\* An ISO-8601 string with a trailing Z for instant t ("200t-01-01T00:00:00Z").
Zulu(t) == [form |-> "Z", t |-> t]
\* An ISO-8601 string without an offset for instant t ("200t-01-01T00:00:00").
Naive(t) == [form |-> "naive", t |-> t]
\* A datetime value (datetime.utcnow()), stored by the driver as a BSON date.
DateTime(t) == [form |-> "datetime", t |-> t]

\* expiration_date inputs; "" fails to parse exactly as "bad" does, and
\* "bad" stands for both.
ExpirationInputs == {Zulu(t) : t \in 1..MaxTime} \cup {Garbage}
\* start_date inputs (None apart): one offset-naive string is enough to
\* reach the naive/aware comparison.
StartInputs == {Zulu(t) : t \in 1..MaxTime} \cup {Naive(1), Empty, Garbage}

\* str(ObjectId): the hexadecimal string of an identifier.
Str(oid) == [valid |-> TRUE, n |-> oid]
\* A string bson.ObjectId() rejects ("not-a-valid-id").
Malformed == [valid |-> FALSE, n |-> 0]
IdStrings == {Str(i) : i \in 1..MaxDocs} \cup {Malformed}

\* ---------------------------------------------------------------- state
VARIABLES
    store,      \* announcements_collection: ObjectId -> document
    nextId,     \* the next ObjectId insert_one generates
    deleted,    \* ObjectIds delete_one has removed
    req,        \* the request being served (NoReq when idle)
    resp,       \* the response of the request (NoResp until produced)
    prev,       \* the collection as it was when the request arrived
    procs       \* the update requests in progress, one per worker (SpecConc)

vars == <<store, nextId, deleted, req, resp, prev, procs>>

NoReq == [op |-> "none", id |-> Malformed, message |-> NoMessage,
          expiration_date |-> None, start_date |-> None,
          teacher_username |-> "ghost", active_only |-> FALSE, now |-> 0]
NoResp == [status |-> "none", body |-> <<>>]

\* ---------------------------------------------------------------- helpers
\* dict.get(k, default)
DictGet(d, k, default) == IF k \in DOMAIN d THEN d[k] ELSE default

\* Python truthiness of an Optional[str]: None and "" are falsy.
Truthy(s) == s # None /\ s # Empty

\* datetime.fromisoformat(s.replace('Z', '+00:00')) succeeds.
IsoParses(s) == s.form \in {"Z", "naive"}
\* The datetime it returns: offset-aware for a trailing Z, naive otherwise.
FromIso(s) == [aware |-> s.form = "Z", t |-> s.t]

\* bson.ObjectId(s) succeeds / its value.
ValidObjectId(s) == s.valid
ObjectId(s) == s.n

\* serialize_announcement: "_id" leaves the payload, "id" is its string.
serialize_announcement(oid, doc) == doc @@ ("id" :> Str(oid))

\* Mutant of TeacherExists: any username passes the check.
AnyUsername(u) == u \in Usernames

TeacherExists(u) == u \in Teachers

\* A handler's outcome: the HTTP status, the returned documents and the
\* collection it leaves behind.
Outcome(status, body, st) == [status |-> status, body |-> body, store |-> st]

\* Mutant of StartNotBefore: the comparison written as > instead of >=.
StartAfter(st_date, exp_date) == st_date.t > exp_date.t

\* st_date >= exp_date on two parsed datetimes (lines 95 and 187).
StartNotBefore(st_date, exp_date) == st_date.t >= exp_date.t

\* The try-block that parses and compares a start and an expiration string
\* (lines 91-101 and 184-193): a ValueError from either parse is a 400
\* "Invalid date format", comparing an offset-naive with an offset-aware
\* datetime raises a TypeError that no handler catches (500).
DateOrderCheck(start, exp) ==
    IF ~IsoParses(exp) \/ ~IsoParses(start) THEN "InvalidDate"
    ELSE IF FromIso(start).aware # FromIso(exp).aware THEN "ServerError"
    ELSE IF StartNotBefore(FromIso(start), FromIso(exp)) THEN "InvalidDateOrder"
    ELSE "OK"

\* ---------------------------------------------------------------- storage
\* insert_one
InsertOne(st, oid, doc) == (oid :> doc) @@ st
\* Mutant of DeleteOne: the document stays in the collection.
DeleteNone(st, oid) == st

\* delete_one({"_id": oid})
DeleteOne(st, oid) == [i \in DOMAIN st \ {oid} |-> st[i]]
\* Mutant of MongoSet: the document is replaced by the fields (no $set).
MongoReplace(st, oid, fields) ==
    IF oid \notin DOMAIN st THEN st ELSE [st EXCEPT ![oid] = fields]

\* update_one({"_id": oid}, {"$set": fields}); no match changes nothing.
MongoSet(st, oid, fields) ==
    IF oid \notin DOMAIN st THEN st
    ELSE [st EXCEPT ![oid] =
            [f \in DOMAIN @ \cup DOMAIN fields |->
                IF f \in DOMAIN fields THEN fields[f] ELSE @[f]]]
\* update_one({"_id": oid}, {"$unset": {field: ""}})
MongoUnset(st, oid, field) ==
    IF oid \notin DOMAIN st THEN st
    ELSE [st EXCEPT ![oid] = [f \in DOMAIN @ \ {field} |-> @[f]]]

\* BSON type of a stored or queried value: the handlers store date strings
\* as they were given (lines 106, 112, 161, 175); utcnow() is a date.
BsonType(v) == IF v.form = "datetime" THEN "date" ELSE "string"
\* {field: {"$lte": q}} and {field: {"$gte": q}}: a comparison operator
\* matches only values in the query value's own type bracket.
MongoLte(doc, field, q) ==
    /\ field \in DOMAIN doc
    /\ BsonType(doc[field]) = "date"
    /\ BsonType(q) = "date"
    /\ doc[field].t <= q.t
MongoGte(doc, field, q) ==
    /\ field \in DOMAIN doc
    /\ BsonType(doc[field]) = "date"
    /\ BsonType(q) = "date"
    /\ doc[field].t >= q.t

\* The query of get_announcements (lines 34-46).
QueryMatches(doc, active_only, now) ==
    IF ~active_only THEN TRUE
    ELSE /\ \/ "start_date" \notin DOMAIN doc
            \/ MongoLte(doc, "start_date", now)
         /\ MongoGte(doc, "expiration_date", now)

\* find(query).sort("created_at", -1), each document serialized.
RECURSIVE SortedDesc(_, _)
SortedDesc(st, ids) ==
    IF ids = {} THEN <<>>
    ELSE LET top == CHOOSE i \in ids :
                        \A j \in ids : st[j].created_at <= st[i].created_at
         IN <<serialize_announcement(top, st[top])>>
                \o SortedDesc(st, ids \ {top})

\* ---------------------------------------------------------------- handlers
\* get_announcements
ListOutcome(st, r) ==
    Outcome("OK",
            SortedDesc(st, {i \in DOMAIN st :
                              QueryMatches(st[i], r.active_only, DateTime(r.now))}),
            st)

\* get_announcement
GetOutcome(st, r) ==
    IF ~ValidObjectId(r.id) THEN Outcome("InvalidIdentifier", <<>>, st)
    ELSE IF ObjectId(r.id) \notin DOMAIN st THEN Outcome("NotFound", <<>>, st)
    ELSE Outcome("OK", <<serialize_announcement(ObjectId(r.id), st[ObjectId(r.id)])>>, st)

\* Mutant of CreateCheck: the start_date is never validated.
CreateCheckExpirationOnly(r) ==
    IF ~IsoParses(r.expiration_date) THEN "InvalidDate" ELSE "OK"

\* The validation of create_announcement (lines 90-101).
CreateCheck(r) ==
    IF ~IsoParses(r.expiration_date) THEN "InvalidDate"
    ELSE IF Truthy(r.start_date)
         THEN DateOrderCheck(r.start_date, r.expiration_date)
         ELSE "OK"

\* Mutant of CreateDocument: the start_date is never stored.
CreateDocumentNoStart(r, now) ==
    [message |-> r.message,
     expiration_date |-> r.expiration_date,
     created_by |-> r.teacher_username,
     created_at |-> now]

\* The document create_announcement builds (lines 104-112); created_at is
\* the time of the insert.
CreateDocument(r, now) ==
    LET base == [message |-> r.message,
                 expiration_date |-> r.expiration_date,
                 created_by |-> r.teacher_username,
                 created_at |-> now]
    IN IF Truthy(r.start_date)
       THEN base @@ ("start_date" :> r.start_date)
       ELSE base

\* create_announcement
CreateOutcome(st, oid, r) ==
    IF ~TeacherExists(r.teacher_username) THEN Outcome("Unauthorized", <<>>, st)
    ELSE IF CreateCheck(r) # "OK" THEN Outcome(CreateCheck(r), <<>>, st)
    ELSE LET doc == CreateDocument(r, oid)
         IN Outcome("OK", <<serialize_announcement(oid, doc)>>,
                    InsertOne(st, oid, doc))

\* The per-field validation of update_announcement (lines 158-177).
UpdateFieldCheck(r) ==
    IF r.expiration_date # None /\ ~IsoParses(r.expiration_date) THEN "InvalidDate"
    ELSE IF r.start_date # None /\ r.start_date # Empty /\ ~IsoParses(r.start_date)
         THEN "InvalidDate"
    ELSE "OK"

\* update_fields (lines 153-177), for a request that passed UpdateFieldCheck.
UpdateFields(r) ==
    LET keys == {k \in {"message", "expiration_date", "start_date"} :
                    \/ k = "message" /\ r.message # NoMessage
                    \/ k = "expiration_date" /\ r.expiration_date # None
                    \/ k = "start_date" /\ r.start_date # None /\ r.start_date # Empty}
    IN [k \in keys |-> r[k]]

\* final_start and final_exp (lines 180-181): the value being set, else the
\* value of the document read at line 145.
FinalStart(update_fields, existing) ==
    DictGet(update_fields, "start_date", DictGet(existing, "start_date", None))
FinalExp(update_fields, existing) ==
    DictGet(update_fields, "expiration_date", DictGet(existing, "expiration_date", None))

\* The ordering re-check of update_announcement (lines 183-193).
UpdateOrderCheck(update_fields, existing) ==
    LET final_start == FinalStart(update_fields, existing)
        final_exp == FinalExp(update_fields, existing)
    IN IF Truthy(final_start) /\ Truthy(final_exp)
       THEN DateOrderCheck(final_start, final_exp)
       ELSE "OK"

\* The collection after the start_date == "" branch (lines 165-171).
AfterUnset(st, oid, r) ==
    IF r.start_date = Empty THEN MongoUnset(st, oid, "start_date") ELSE st

\* The collection after the $set of update_fields (lines 195-199).
AfterSet(st, oid, update_fields) ==
    IF DOMAIN update_fields # {} THEN MongoSet(st, oid, update_fields) ELSE st

\* The read-back and return of update_announcement (lines 202-203):
\* serialize_announcement(None) raises a TypeError when the document is gone.
UpdateReturn(st, oid) ==
    IF oid \in DOMAIN st
    THEN Outcome("OK", <<serialize_announcement(oid, st[oid])>>, st)
    ELSE Outcome("ServerError", <<>>, st)

\* update_announcement
UpdateOutcome(st, r) ==
    IF ~TeacherExists(r.teacher_username) THEN Outcome("Unauthorized", <<>>, st)
    ELSE IF ~ValidObjectId(r.id) THEN Outcome("InvalidIdentifier", <<>>, st)
    ELSE IF ObjectId(r.id) \notin DOMAIN st THEN Outcome("NotFound", <<>>, st)
    ELSE IF UpdateFieldCheck(r) # "OK" THEN Outcome(UpdateFieldCheck(r), <<>>, st)
    ELSE LET oid == ObjectId(r.id)
             existing == st[oid]
             update_fields == UpdateFields(r)
             st1 == AfterUnset(st, oid, r)
             check == UpdateOrderCheck(update_fields, existing)
         IN IF check # "OK" THEN Outcome(check, <<>>, st1)
            ELSE UpdateReturn(AfterSet(st1, oid, update_fields), oid)

\* delete_announcement
DeleteOutcome(st, r) ==
    IF ~TeacherExists(r.teacher_username) THEN Outcome("Unauthorized", <<>>, st)
    ELSE IF ~ValidObjectId(r.id) THEN Outcome("InvalidIdentifier", <<>>, st)
    ELSE IF ObjectId(r.id) \notin DOMAIN st THEN Outcome("NotFound", <<>>, st)
    ELSE Outcome("OK", <<>>, DeleteOne(st, ObjectId(r.id)))

\* ---------------------------------------------------------------- requests
ListRequests ==
    {[NoReq EXCEPT !.op = "list", !.active_only = a, !.now = n] :
        a \in BOOLEAN, n \in 0..(MaxTime + 1)}
GetRequests == {[NoReq EXCEPT !.op = "get", !.id = i] : i \in IdStrings}
CreateRequests ==
    {[NoReq EXCEPT !.op = "create", !.message = m, !.expiration_date = e,
                   !.start_date = s, !.teacher_username = u] :
        m \in Messages, e \in ExpirationInputs,
        s \in StartInputs \cup {None}, u \in Usernames}
UpdateRequests ==
    {[NoReq EXCEPT !.op = "update", !.id = i, !.message = m,
                   !.expiration_date = e, !.start_date = s,
                   !.teacher_username = u] :
        i \in IdStrings, m \in {NoMessage, "m2"},
        e \in ExpirationInputs \cup {None},
        s \in StartInputs \cup {None}, u \in Usernames}
DeleteRequests ==
    {[NoReq EXCEPT !.op = "delete", !.id = i, !.teacher_username = u] :
        i \in IdStrings, u \in Usernames}

\* ---------------------------------------------------------------- actions
Workers == {1, 2}
IdleWorker == [pc |-> "idle", r |-> NoReq, existing |-> <<>>]

Init ==
    /\ store = <<>>
    /\ nextId = 1
    /\ deleted = {}
    /\ req = NoReq
    /\ resp = NoResp
    /\ prev = <<>>
    /\ procs = [w \in Workers |-> IdleWorker]

\* A request r is served from start to end; out is the handler's outcome.
Serve(r, out) ==
    /\ req' = r
    /\ prev' = store
    /\ resp' = [status |-> out.status, body |-> out.body]
    /\ store' = out.store

List ==
    /\ req = NoReq
    /\ \E r \in ListRequests : Serve(r, ListOutcome(store, r))
    /\ UNCHANGED <<nextId, deleted, procs>>

Get ==
    /\ req = NoReq
    /\ \E r \in GetRequests : Serve(r, GetOutcome(store, r))
    /\ UNCHANGED <<nextId, deleted, procs>>

Create ==
    /\ req = NoReq
    /\ nextId <= MaxDocs
    /\ \E r \in CreateRequests :
        LET out == CreateOutcome(store, nextId, r)
        IN /\ Serve(r, out)
           /\ nextId' = IF out.status = "OK" THEN nextId + 1 ELSE nextId
    /\ UNCHANGED <<deleted, procs>>

Update ==
    /\ req = NoReq
    /\ \E r \in UpdateRequests : Serve(r, UpdateOutcome(store, r))
    /\ UNCHANGED <<nextId, deleted, procs>>

Delete ==
    /\ req = NoReq
    /\ \E r \in DeleteRequests :
        LET out == DeleteOutcome(store, r)
        IN /\ Serve(r, out)
           /\ deleted' = IF out.status = "OK"
                         THEN deleted \cup {ObjectId(r.id)} ELSE deleted
    /\ UNCHANGED <<nextId, procs>>

\* The response is delivered; the service takes the next request.
Return ==
    /\ req # NoReq
    /\ req' = NoReq
    /\ resp' = NoResp
    /\ prev' = store
    /\ UNCHANGED <<store, nextId, deleted, procs>>

Next ==
    \/ List
    \/ Get
    \/ Create
    \/ Update
    \/ Delete
    \/ Return

Spec == Init /\ [][Next]_vars

\* ---------------------------------------------------------------- concurrency
\* Requests served by concurrent workers: every handler is a sequence of
\* storage operations, each atomic. create and delete issue one write each;
\* update_announcement issues find_one (line 145), then $unset (line 168)
\* when start_date == "", then $set (line 196) when update_fields is not
\* empty. Code between two storage operations touches only the request's
\* locals and runs with the operation before it. A request rejected before
\* its first write leaves no trace and is not listed.
ConcCreateRequests ==
    {r \in CreateRequests : r.message = "m1" /\ TeacherExists(r.teacher_username)}
ConcUpdateRequests ==
    {r \in UpdateRequests :
        /\ r.message = NoMessage
        /\ TeacherExists(r.teacher_username)
        /\ ValidObjectId(r.id)
        /\ UpdateFieldCheck(r) = "OK"}
ConcDeleteRequests ==
    {r \in DeleteRequests : TeacherExists(r.teacher_username) /\ ValidObjectId(r.id)}

\* Whether the request reaches its $set: the re-check passed on the document
\* it read and there is something to set (lines 183-195).
ReachesSet(w) ==
    /\ UpdateOrderCheck(UpdateFields(w.r), w.existing) = "OK"
    /\ DOMAIN UpdateFields(w.r) # {}

ConcCreate ==
    /\ nextId <= MaxDocs
    /\ \E r \in ConcCreateRequests :
        LET out == CreateOutcome(store, nextId, r)
        IN /\ out.status = "OK"
           /\ store' = out.store
           /\ nextId' = nextId + 1
    /\ UNCHANGED <<deleted, req, resp, prev, procs>>

ConcDelete ==
    /\ \E r \in ConcDeleteRequests :
        LET out == DeleteOutcome(store, r)
        IN /\ out.status = "OK"
           /\ store' = out.store
           /\ deleted' = deleted \cup {ObjectId(r.id)}
    /\ UNCHANGED <<nextId, req, resp, prev, procs>>

\* find_one at line 145 and the validation up to the first write.
UpdateRead(p) ==
    /\ procs[p].pc = "idle"
    /\ \E r \in ConcUpdateRequests :
        /\ ObjectId(r.id) \in DOMAIN store
        /\ LET w == [pc |-> "read", r |-> r, existing |-> store[ObjectId(r.id)]]
           IN /\ r.start_date = Empty \/ ReachesSet(w)
              /\ procs' = [procs EXCEPT ![p] =
                    [w EXCEPT !.pc = IF r.start_date = Empty THEN "unset" ELSE "set"]]
    /\ UNCHANGED <<store, nextId, deleted, req, resp, prev>>

\* update_one $unset at line 168, then the re-check on the document read before.
UpdateUnset(p) ==
    /\ procs[p].pc = "unset"
    /\ store' = AfterUnset(store, ObjectId(procs[p].r.id), procs[p].r)
    /\ procs' = [procs EXCEPT ![p] =
            IF ReachesSet(procs[p]) THEN [@ EXCEPT !.pc = "set"] ELSE IdleWorker]
    /\ UNCHANGED <<nextId, deleted, req, resp, prev>>

\* update_one $set at line 196; the read-back at line 202 changes nothing.
UpdateSet(p) ==
    /\ procs[p].pc = "set"
    /\ store' = AfterSet(store, ObjectId(procs[p].r.id), UpdateFields(procs[p].r))
    /\ procs' = [procs EXCEPT ![p] = IdleWorker]
    /\ UNCHANGED <<nextId, deleted, req, resp, prev>>

NextConc ==
    \/ ConcCreate
    \/ ConcDelete
    \/ \E p \in Workers : UpdateRead(p)
    \/ \E p \in Workers : UpdateUnset(p)
    \/ \E p \in Workers : UpdateSet(p)

SpecConc == Init /\ [][NextConc]_vars

\* ---------------------------------------------------------------- properties
\* A request of the given kind has been served and its response is at hand.
Served(op) == req.op = op /\ resp # NoResp

\* start_date < expiration_date as datetimes: both strings parse, to
\* datetimes that can be compared, the start strictly earlier.
Ordered(doc) ==
    ("start_date" \in DOMAIN doc /\ "expiration_date" \in DOMAIN doc) =>
        /\ doc.start_date.form \in {"Z", "naive"}
        /\ doc.expiration_date.form = doc.start_date.form
        /\ doc.start_date.t < doc.expiration_date.t

\* The documents besides oid are what they were when the request arrived.
OthersUnchanged(oid) ==
    /\ DOMAIN store \ {oid} = DOMAIN prev \ {oid}
    /\ \A j \in DOMAIN store \ {oid} : store[j] = prev[j]

\* C1: after any sequence of complete create, update and delete calls from
\* an empty collection, every stored announcement that has both a start_date
\* and an expiration_date has start_date < expiration_date, strictly.
C1_StartBeforeExpiration == \A i \in DOMAIN store : Ordered(store[i])

\* C1 witness: an update has just given a stored announcement a new
\* start_date next to its expiration_date.
C1_Witness ==
    /\ Served("update") /\ resp.status = "OK"
    /\ req.start_date.form = "Z"
    /\ "start_date" \notin DOMAIN prev[ObjectId(req.id)]
    /\ "start_date" \in DOMAIN store[ObjectId(req.id)]

\* C2: create, update and delete by a username without a teacher record fail
\* with Unauthorized whatever the other arguments are, and leave the
\* collection as it was.
C2_UnauthorizedChangesNothing ==
    (/\ resp # NoResp
     /\ req.op \in {"create", "update", "delete"}
     /\ req.teacher_username \notin Teachers)
        => (resp.status = "Unauthorized" /\ store = prev)

\* C2 witness: a username without a record asked to delete a stored
\* announcement and was refused.
C2_Witness ==
    /\ Served("delete")
    /\ req.teacher_username \notin Teachers
    /\ ValidObjectId(req.id) /\ ObjectId(req.id) \in DOMAIN prev
    /\ resp.status = "Unauthorized"

\* A start_date argument counts as given: always when it is not None, or
\* only when it is not the empty string either.
Given(s, emptyCounts) == s # None /\ (emptyCounts \/ s # Empty)

\* What the date arguments of a create ask for: InvalidDate when the expiration_date or the
\* given start_date does not parse, InvalidDateOrder when both parse to
\* comparable datetimes with start >= expiration; nothing inserted.
CreateRejects(emptyCounts) ==
    (Served("create") /\ req.teacher_username \in Teachers) =>
        LET e == req.expiration_date
            s == req.start_date
            eok == e.form \in {"Z", "naive"}
            sok == s.form \in {"Z", "naive"}
        IN /\ ~eok => (resp.status = "InvalidDate" /\ store = prev)
           /\ (eok /\ Given(s, emptyCounts) /\ ~sok) => (resp.status = "InvalidDate" /\ store = prev)
           /\ (eok /\ Given(s, emptyCounts) /\ sok /\ s.form = e.form /\ s.t >= e.t)
                => (resp.status = "InvalidDateOrder" /\ store = prev)

CreateThenGet(emptyCounts) ==
    (Served("create") /\ resp.status = "OK") =>
        LET id == resp.body[1].id
            got == GetOutcome(store, [NoReq EXCEPT !.op = "get", !.id = id])
        IN /\ got.status = "OK"
           /\ got.body[1].id = id
           /\ got.body[1].message = req.message
           /\ got.body[1].expiration_date = req.expiration_date
           /\ got.body[1].created_by = req.teacher_username
           /\ "created_at" \in DOMAIN got.body[1]
           /\ IF Given(req.start_date, emptyCounts)
              THEN /\ "start_date" \in DOMAIN got.body[1]
                   /\ got.body[1].start_date = req.start_date
              ELSE "start_date" \notin DOMAIN got.body[1]

\* C4 as stated: after a successful create, get on the returned id returns
\* the message, expiration_date and start_date of the inputs (start_date
\* present only if one was supplied), created_by = teacher_username and the
\* returned id.
C4_Original == CreateThenGet(TRUE)

\* C4 amended: the same, the start_date being present exactly when a
\* non-empty start_date was supplied.
C4_GetReturnsCreated == CreateThenGet(FALSE)

\* C4 witness: a create with a start_date succeeded.
C4_Witness ==
    /\ Served("create") /\ resp.status = "OK"
    /\ req.start_date.form = "Z"
    /\ Cardinality(DOMAIN store) = 2

\* C5: after a successful update the stored document is the one before the
\* call with each supplied message, expiration_date and non-empty start_date
\* replaced, the start_date absent if "" was supplied, every other field as
\* it was, nothing modified if no field was supplied; every other
\* announcement is unchanged.
C5_UpdateFrame ==
    (Served("update") /\ resp.status = "OK") =>
        LET oid == ObjectId(req.id)
            old == prev[oid]
            new == store[oid]
        IN /\ oid \in DOMAIN prev /\ oid \in DOMAIN store
           /\ OthersUnchanged(oid)
           /\ DOMAIN new \ {"start_date"}
                = {"message", "expiration_date", "created_by", "created_at"}
           /\ new.message = IF req.message # NoMessage THEN req.message ELSE old.message
           /\ new.expiration_date =
                IF req.expiration_date # None THEN req.expiration_date
                ELSE old.expiration_date
           /\ IF req.start_date = Empty THEN "start_date" \notin DOMAIN new
              ELSE IF req.start_date # None
                   THEN "start_date" \in DOMAIN new /\ new.start_date = req.start_date
              ELSE /\ "start_date" \in DOMAIN new <=> "start_date" \in DOMAIN old
                   /\ "start_date" \in DOMAIN new => new.start_date = old.start_date
           /\ new.created_by = old.created_by
           /\ new.created_at = old.created_at
           /\ (req.message = NoMessage /\ req.expiration_date = None
                    /\ req.start_date = None) => store = prev

\* C5 witness: one update replaced the message and removed the start_date
\* of one of two stored announcements.
C5_Witness ==
    /\ Served("update") /\ resp.status = "OK"
    /\ req.message = "m2" /\ req.start_date = Empty
    /\ prev[ObjectId(req.id)].message = "m1"
    /\ "start_date" \in DOMAIN prev[ObjectId(req.id)]
    /\ Cardinality(DOMAIN store) = 2

\* C6: a successful delete removes exactly the document with that id and
\* leaves the others unchanged; the document never comes back, and every
\* later get, update or delete of that id (by an existing teacher) fails
\* with NotFound and changes nothing.
C6_DeleteIsPhysical ==
    /\ deleted \cap DOMAIN store = {}
    /\ (Served("delete") /\ resp.status = "OK") =>
            /\ ObjectId(req.id) \in DOMAIN prev
            /\ ObjectId(req.id) \notin DOMAIN store
            /\ OthersUnchanged(ObjectId(req.id))
    /\ (/\ resp # NoResp
        /\ req.op \in {"get", "update", "delete"}
        /\ req.op # "get" => req.teacher_username \in Teachers
        /\ ValidObjectId(req.id)
        /\ ObjectId(req.id) \in deleted
        /\ ObjectId(req.id) \notin DOMAIN prev)
            => (resp.status = "NotFound" /\ store = prev)

\* C6 witness: a second delete of an id already deleted, with another
\* announcement still stored.
C6_Witness ==
    /\ Served("delete") /\ resp.status = "NotFound"
    /\ req.teacher_username \in Teachers
    /\ ValidObjectId(req.id)
    /\ ObjectId(req.id) \in deleted
    /\ ObjectId(req.id) \notin DOMAIN prev
    /\ store # <<>>

\* An announcement is active at instant n.
ActiveAt(doc, n) ==
    /\ "start_date" \in DOMAIN doc => doc.start_date.t <= n
    /\ doc.expiration_date.t >= n

\* C7: list(active_only=true) returns exactly the stored announcements with
\* (start_date absent or start_date <= now) and expiration_date >= now, and
\* modifies nothing.
C7_ActiveListExact ==
    (Served("list") /\ req.active_only) =>
        /\ {resp.body[k].id : k \in DOMAIN resp.body}
                = {Str(i) : i \in {j \in DOMAIN store : ActiveAt(store[j], req.now)}}
        /\ store = prev

\* The effective value of a date field of an update: the supplied value,
\* else the stored one, else absent; a supplied "" removes the start_date.
EffectiveStart ==
    IF req.start_date = Empty THEN None
    ELSE IF req.start_date # None THEN req.start_date
    ELSE DictGet(prev[ObjectId(req.id)], "start_date", None)
EffectiveExp ==
    IF req.expiration_date # None THEN req.expiration_date
    ELSE DictGet(prev[ObjectId(req.id)], "expiration_date", None)

\* C8: an update that reaches the ordering re-check fails with
\* InvalidDateOrder exactly when the effective start_date and expiration_date
\* are both present and start >= expiration; a request that supplies
\* start_date = "" is never rejected with InvalidDateOrder.
C8_RecheckOnEffectiveValues ==
    (/\ Served("update")
     /\ req.teacher_username \in Teachers
     /\ ValidObjectId(req.id)
     /\ ObjectId(req.id) \in DOMAIN prev
     /\ UpdateFieldCheck(req) = "OK")
        => /\ resp.status = "InvalidDateOrder" <=>
                /\ EffectiveStart # None /\ EffectiveExp # None
                /\ EffectiveStart.form = EffectiveExp.form
                /\ EffectiveStart.t >= EffectiveExp.t
           /\ req.start_date = Empty => resp.status # "InvalidDateOrder"

\* C9: an update that returns Unauthorized, InvalidIdentifier, NotFound,
\* InvalidDate or InvalidDateOrder leaves the stored announcement exactly as
\* it was.
C9_RejectedUpdateChangesNothing ==
    (/\ Served("update")
     /\ resp.status \in {"Unauthorized", "InvalidIdentifier", "NotFound",
                         "InvalidDate", "InvalidDateOrder"})
        => store = prev

\* C10: start_date < expiration_date holds of every stored announcement in
\* every reachable state when update requests interleave at the granularity
\* of their storage operations.
C10_OrderedUnderInterleaving ==
    \A i \in DOMAIN store :
        "start_date" \in DOMAIN store[i] =>
            store[i].start_date.t < store[i].expiration_date.t
====
